---- MODULE Spec2Model ----
(***************************************************************************)
(* sfmTransfer (src/software/utils/main_sfmTransfer.cpp): two scenes are   *)
(* loaded, their views are matched, and pose / intrinsic data of matched   *)
(* reference views is copied into target views that are not yet            *)
(* pose-and-intrinsic-complete; the target scene is then saved.            *)
(***************************************************************************)
EXTENDS Integers, Sequences, FiniteSets, TLC

\* ------------------------------------------------------------------ bounds
\* View IDs of the bounded scenes are 1..MaxView (both scenes); their pose IDs
\* and intrinsic IDs are view IDs.
MaxView == 2

ViewIds == 1..MaxView

\* ------------------------------------------------------- process exit codes
EXIT_SUCCESS == 0
EXIT_FAILURE == 1
\* Abnormal termination of the process: an uncaught exception (abort, 134) or
\* a dereference of a null pointer (segmentation fault, 139).
AbnormalExit == {134, 139}

\* --------------------------------------------------------------- data model
PartialFns(D, R) == UNION {[S -> R] : S \in SUBSET D}

EmptyMap == [x \in {} |-> 0]

\* A default-constructed SfMData: no views, no poses, no intrinsics.
EmptyScene == [views |-> EmptyMap, poses |-> EmptyMap, intrinsics |-> EmptyMap]

Min(S) == CHOOSE x \in S : \A y \in S : x <= y

\* std::map::operator[] followed by an assignment: insert or overwrite.
Put(f, k, v) == [x \in (DOMAIN f) \cup {k} |-> IF x = k THEN v ELSE f[x]]

\* The pairs (t, m[t]) of a map m, in ascending order of t.
RECURSIVE PairsOf(_, _)
PairsOf(S, m) ==
    IF S = {} THEN << >>
    ELSE LET t == Min(S) IN << <<t, m[t]>> >> \o PairsOf(S \ {t}, m)

\* ------------------------------------------------------ scene query surface
getView(scene, viewId) == scene.views[viewId]

isPartOfRig(view) == view.rig

isPoseAndIntrinsicDefined(scene, viewId) ==
    LET view == getView(scene, viewId) IN
    /\ view.poseId \in DOMAIN scene.poses
    /\ view.intrinsicId \in DOMAIN scene.intrinsics

\* A pointer to the intrinsic with this ID: <<id>>, or the null pointer << >>.
getIntrinsicPtr(scene, intrinsicId) ==
    IF intrinsicId \in DOMAIN scene.intrinsics THEN <<intrinsicId>> ELSE << >>

\* The view IDs present in both scenes, in ascending order.
RECURSIVE Ascending(_)
Ascending(S) == IF S = {} THEN << >> ELSE <<Min(S)>> \o Ascending(S \ {Min(S)})

getCommonViews(sceneA, sceneB) ==
    Ascending((DOMAIN sceneA.views) \cap (DOMAIN sceneB.views))

\* What matchViewsByFilePattern / matchViewsByMetadataMatching can return: a
\* list of (target, reference) pairs of existing views, no target view twice,
\* in ascending order of the target view.
LibraryMatches(sceneA, sceneB) ==
    {PairsOf(DOMAIN m, m) : m \in PartialFns(DOMAIN sceneA.views, DOMAIN sceneB.views)}

\* --------------------------------------------------------------- matching
\* (mutant) every common view paired with its position in the list.
PairedWithPosition(in, ref) ==
    LET ids == getCommonViews(in, ref) IN [k \in 1..Len(ids) |-> <<ids[k], k>>]

\* Lines 187-196: every common view ID paired with itself.
MatchFromViewId(in, ref) ==
    LET ids == getCommonViews(in, ref) IN [k \in 1..Len(ids) |-> <<ids[k], ids[k]>>]

\* ------------------------------------------------------------ the transfer
\* (mutant) the reference view's completeness is not tested.
EligibleTargetOnly(in, ref, pair) == ~isPoseAndIntrinsicDefined(in, pair[1])

\* Lines 224-225: target view incomplete and reference view complete.
Eligible(in, ref, pair) ==
    /\ ~isPoseAndIntrinsicDefined(in, pair[1])
    /\ isPoseAndIntrinsicDefined(ref, pair[2])

\* (mutant) only the target view is tested for rig membership.
RigSkippedTargetOnly(viewA, viewB) == isPartOfRig(viewA)

\* Line 232.
RigSkipped(viewA, viewB) == isPartOfRig(viewA) \/ isPartOfRig(viewB)

\* (mutant) the reference pose is applied on top of the stored pose (the
\* identity, 0, when there is none) instead of replacing it.
WritePoseComposed(in, ref, viewA, viewB) ==
    LET old == IF viewA.poseId \in DOMAIN in.poses THEN in.poses[viewA.poseId] ELSE 0 IN
    [in EXCEPT !.poses = Put(in.poses, viewA.poseId, old + ref.poses[viewB.poseId])]

\* (mutant) the pose is stored under the reference view's pose ID.
WritePoseAtReferenceId(in, ref, viewA, viewB) ==
    [in EXCEPT !.poses = Put(in.poses, viewB.poseId, ref.poses[viewB.poseId])]

\* Line 240: insert or overwrite the pose at the target view's pose ID.
WritePose(in, ref, viewA, viewB) ==
    [in EXCEPT !.poses = Put(in.poses, viewA.poseId, ref.poses[viewB.poseId])]

\* Line 244: the target intrinsic is reached through its pointer and assigned
\* the parameters of the reference intrinsic; no table entry is created.
WriteIntrinsic(in, ref, viewA, viewB) ==
    [in EXCEPT !.intrinsics[viewA.intrinsicId] = ref.intrinsics[viewB.intrinsicId]]

\* (mutant) both copies are guarded by transferPoses.
TransferPairOneFlag(in, ref, pair, tp, ti) ==
    LET viewA == getView(in, pair[1])
        viewB == getView(ref, pair[2])
        afterPose == IF tp THEN WritePose(in, ref, viewA, viewB) ELSE in
    IN  IF ~Eligible(in, ref, pair) \/ RigSkipped(viewA, viewB)
        THEN [scene |-> in, crashed |-> FALSE]
        ELSE IF tp /\ getIntrinsicPtr(afterPose, viewA.intrinsicId) = << >>
        THEN [scene |-> afterPose, crashed |-> TRUE]
        ELSE [scene |-> IF tp THEN WriteIntrinsic(afterPose, ref, viewA, viewB)
                              ELSE afterPose,
              crashed |-> FALSE]

\* Lines 224-246 for one pair: the scene after the pair, and whether the
\* process died in it. Line 240 reads the reference pose with at(), which
\* throws on a missing key; line 244 dereferences the two pointers that
\* getIntrinsicPtr returns, null for a missing intrinsic.
TransferPair(in, ref, pair, tp, ti) ==
    LET viewA == getView(in, pair[1])
        viewB == getView(ref, pair[2])
        poseThrows == tp /\ viewB.poseId \notin DOMAIN ref.poses
        afterPose == IF tp THEN WritePose(in, ref, viewA, viewB) ELSE in
    IN  IF ~Eligible(in, ref, pair) THEN [scene |-> in, crashed |-> FALSE]
        ELSE IF RigSkipped(viewA, viewB) THEN [scene |-> in, crashed |-> FALSE]
        ELSE IF poseThrows THEN [scene |-> in, crashed |-> TRUE]
        ELSE IF ti /\ (\/ getIntrinsicPtr(afterPose, viewA.intrinsicId) = << >>
                       \/ getIntrinsicPtr(ref, viewB.intrinsicId) = << >>)
        THEN [scene |-> afterPose, crashed |-> TRUE]
        ELSE [scene |-> IF ti THEN WriteIntrinsic(afterPose, ref, viewA, viewB)
                              ELSE afterPose,
              crashed |-> FALSE]

\* Lines 216-248 as a whole, on a list of pairs.
RECURSIVE TransferLoop(_, _, _, _, _)
TransferLoop(in, ref, pairs, tp, ti) ==
    IF pairs = << >> \/ (~tp /\ ~ti) THEN [scene |-> in, crashed |-> FALSE]
    ELSE LET res == TransferPair(in, ref, Head(pairs), tp, ti) IN
         IF res.crashed THEN res
         ELSE TransferLoop(res.scene, ref, Tail(pairs), tp, ti)

\* ------------------------------------------------------------------ inputs
\* Maps from a set of view IDs to view records, the record of view v in recs[v].
ViewMaps(recs) ==
    UNION {{vs \in [S -> UNION {recs[v] : v \in S}] : \A v \in S : vs[v] \in recs[v]} :
           S \in SUBSET ViewIds}

\* Target views: a plain view uses its own pose ID and intrinsic ID (its view
\* ID) or shares those of view 1; a rig member uses its own.
TargetViewRecords ==
    [v \in ViewIds |->
       [poseId : {1, v}, intrinsicId : {1, v}, rig : {FALSE}]
         \cup {[poseId |-> v, intrinsicId |-> v, rig |-> TRUE]}]

\* Target views of the runs that match through the library: plain views with
\* their own pose ID and intrinsic ID.
LibraryTargetViewRecords ==
    [v \in ViewIds |-> [poseId : {v}, intrinsicId : {v}, rig : {FALSE}]]

PoseIdsOf(vs) == {vs[v].poseId : v \in DOMAIN vs}
IntrinsicIdsOf(vs) == {vs[v].intrinsicId : v \in DOMAIN vs}

\* Target scene files: the poses and intrinsics already stored have value 0,
\* and every stored entry is one some view refers to.
TargetScenes(recs) ==
    UNION {{[views |-> vs, poses |-> [p \in P |-> 0], intrinsics |-> [i \in I |-> 0]] :
              P \in SUBSET PoseIdsOf(vs), I \in SUBSET IntrinsicIdsOf(vs)} :
           vs \in ViewMaps(recs)}

\* Reference scene files: view r uses pose ID r and intrinsic ID r, the value
\* stored under ID r is r; a view is complete (a rig member or not), or lacks
\* its pose or its intrinsic.
ReferenceViewKinds == {"complete", "rig", "noPose"}

LibraryReferenceViewKinds == {"complete", "noIntrinsic"}

ReferenceScenes(Kinds) ==
    {[views |-> [r \in DOMAIN kind |->
                   [poseId |-> r, intrinsicId |-> r, rig |-> (kind[r] = "rig")]],
      poses |-> [p \in {r \in DOMAIN kind : kind[r] # "noPose"} |-> p],
      intrinsics |-> [i \in {r \in DOMAIN kind : kind[r] # "noIntrinsic"} |-> i]] :
        kind \in PartialFns(ViewIds, Kinds)}

\* The end-to-end scenario of the specification: target views {1,2,3}, view 3
\* lacking pose and intrinsic (view 1 complete or not), reference views {2,3,4}
\* all complete, view 3 of the reference a rig member or not.
ScenarioTargets ==
    {[views |-> [v \in {1, 2, 3} |-> [poseId |-> v, intrinsicId |-> v, rig |-> FALSE]],
      poses |-> [p \in S |-> 0], intrinsics |-> [i \in S |-> 0]] : S \in {{2}, {1, 2}}}

ScenarioReferences ==
    {[views |-> [r \in {2, 3, 4} |-> [poseId |-> r, intrinsicId |-> r, rig |-> (rig /\ r = 3)]],
      poses |-> [p \in {2, 3, 4} |-> p], intrinsics |-> [i \in {2, 3, 4} |-> i]] :
        rig \in BOOLEAN}

MatchingMethods == {"FROM_VIEWID", "FROM_FILEPATH", "FROM_METADATA"}

VARIABLES inFile, refFile, transferPoses, transferIntrinsics, matchingMethod,
          sfmDataIn, sfmDataInRef, commonViewIds, idx, pc, exitCode, outFile,
          outcome

vars == <<inFile, refFile, transferPoses, transferIntrinsics, matchingMethod,
          sfmDataIn, sfmDataInRef, commonViewIds, idx, pc, exitCode, outFile,
          outcome>>

params == <<inFile, refFile, transferPoses, transferIntrinsics, matchingMethod>>

\* The state after the command line is parsed (line 164): nothing loaded.
InitRun ==
    /\ sfmDataIn = EmptyScene
    /\ sfmDataInRef = EmptyScene
    /\ commonViewIds = << >>
    /\ idx = 0
    /\ pc = "loadIn"
    /\ exitCode = -1
    /\ outFile = {}
    /\ outcome = "running"

InitById ==
    /\ matchingMethod = "FROM_VIEWID"
    /\ inFile \in TargetScenes(TargetViewRecords)
    /\ refFile \in ReferenceScenes(ReferenceViewKinds)
    /\ transferPoses \in BOOLEAN
    /\ transferIntrinsics \in BOOLEAN

InitByLibrary ==
    /\ matchingMethod \in {"FROM_FILEPATH", "FROM_METADATA"}
    /\ inFile \in TargetScenes(LibraryTargetViewRecords)
    /\ refFile \in ReferenceScenes(LibraryReferenceViewKinds)
    /\ transferPoses \in BOOLEAN
    /\ transferIntrinsics \in BOOLEAN

InitScenario ==
    /\ matchingMethod = "FROM_VIEWID"
    /\ inFile \in ScenarioTargets
    /\ refFile \in ScenarioReferences
    /\ transferPoses = TRUE
    /\ transferIntrinsics = TRUE

Init == (InitById \/ InitByLibrary \/ InitScenario) /\ InitRun

\* Lines 166-172.
LoadIn ==
    /\ pc = "loadIn"
    /\ \E ok \in BOOLEAN :
         IF ok THEN /\ sfmDataIn' = inFile
                    /\ pc' = "loadRef"
                    /\ UNCHANGED <<exitCode, outcome>>
               ELSE /\ sfmDataIn' = sfmDataIn
                    /\ pc' = "done"
                    /\ exitCode' = EXIT_FAILURE
                    /\ outcome' = "loadInFailed"
    /\ UNCHANGED <<params, sfmDataInRef, commonViewIds, idx, outFile>>

\* Lines 174-180.
LoadRef ==
    /\ pc = "loadRef"
    /\ \E ok \in BOOLEAN :
         IF ok THEN /\ sfmDataInRef' = refFile
                    /\ pc' = "match"
                    /\ UNCHANGED <<exitCode, outcome>>
               ELSE /\ sfmDataInRef' = sfmDataInRef
                    /\ pc' = "done"
                    /\ exitCode' = EXIT_FAILURE
                    /\ outcome' = "loadRefFailed"
    /\ UNCHANGED <<params, sfmDataIn, commonViewIds, idx, outFile>>

\* Lines 184-214: the correspondences, and the end of the run when there are
\* none.
Match ==
    /\ pc = "match"
    /\ IF matchingMethod = "FROM_VIEWID"
       THEN commonViewIds' = MatchFromViewId(sfmDataIn, sfmDataInRef)
       ELSE commonViewIds' \in LibraryMatches(sfmDataIn, sfmDataInRef)
    /\ IF commonViewIds' = << >>
       THEN /\ pc' = "done"
            /\ exitCode' = EXIT_FAILURE
            /\ outcome' = "noCommonViews"
            /\ idx' = idx
       ELSE /\ pc' = "transfer"
            /\ idx' = 1
            /\ UNCHANGED <<exitCode, outcome>>
    /\ UNCHANGED <<params, sfmDataIn, sfmDataInRef, outFile>>

\* (mutant) the no-op configuration ends the run with a failure.
NothingToDoFatal ==
    /\ pc = "transfer"
    /\ ~transferPoses /\ ~transferIntrinsics
    /\ pc' = "done"
    /\ exitCode' = EXIT_FAILURE
    /\ outcome' = "nothingToDo"
    /\ UNCHANGED <<params, sfmDataIn, sfmDataInRef, commonViewIds, idx, outFile>>

\* Lines 216-219: "Nothing to do." is logged and the run goes on to the save.
NothingToDo ==
    /\ pc = "transfer"
    /\ ~transferPoses /\ ~transferIntrinsics
    /\ pc' = "save"
    /\ UNCHANGED <<params, sfmDataIn, sfmDataInRef, commonViewIds, idx, exitCode,
                   outFile, outcome>>

\* Lines 222-247: one iteration of the loop.
TransferStep ==
    /\ pc = "transfer"
    /\ ~(~transferPoses /\ ~transferIntrinsics)
    /\ LET res == TransferPair(sfmDataIn, sfmDataInRef, commonViewIds[idx],
                               transferPoses, transferIntrinsics) IN
       /\ sfmDataIn' = res.scene
       /\ IF res.crashed
          THEN /\ pc' = "done"
               /\ exitCode' \in AbnormalExit
               /\ outcome' = "aborted"
               /\ idx' = idx
          ELSE /\ pc' = IF idx = Len(commonViewIds) THEN "save" ELSE "transfer"
               /\ idx' = idx + 1
               /\ UNCHANGED <<exitCode, outcome>>
    /\ UNCHANGED <<params, sfmDataInRef, commonViewIds, outFile>>

\* Lines 250-258.
Save ==
    /\ pc = "save"
    /\ \E ok \in BOOLEAN :
         IF ok THEN /\ outFile' = {sfmDataIn}
                    /\ exitCode' = EXIT_SUCCESS
                    /\ outcome' = "saved"
               ELSE /\ outFile' = outFile
                    /\ exitCode' = EXIT_FAILURE
                    /\ outcome' = "saveFailed"
    /\ pc' = "done"
    /\ UNCHANGED <<params, sfmDataIn, sfmDataInRef, commonViewIds, idx>>

Next == LoadIn \/ LoadRef \/ Match \/ NothingToDo \/ TransferStep \/ Save

Spec == Init /\ [][Next]_vars

\* ---------------------------------------------------------------- claims
PairSet == {commonViewIds[k] : k \in 1..Len(commonViewIds)}

\* The run got past the empty-correspondence check: both scenes are loaded and
\* the correspondences are fixed.
InTransfer == idx >= 1

\* The loop has just run to its end (or was not entered, both flags false).
LoopEnded == pc = "save"

Saved == CHOOSE scene \in outFile : TRUE

\* Entry k of table f is the same in g: absent in both, or present and equal.
SameEntry(f, g, k) ==
    /\ k \in DOMAIN f <=> k \in DOMAIN g
    /\ k \in DOMAIN f => f[k] = g[k]

\* The pose and the intrinsic of target view t are in `scene` as in the input.
SlotsKept(scene, t) ==
    /\ SameEntry(inFile.poses, scene.poses, inFile.views[t].poseId)
    /\ SameEntry(inFile.intrinsics, scene.intrinsics, inFile.views[t].intrinsicId)

RigPair(pair) ==
    isPartOfRig(inFile.views[pair[1]]) \/ isPartOfRig(refFile.views[pair[2]])

\* Eligible on the scenes as loaded: target incomplete, reference complete,
\* neither view a rig member.
EligibleBefore(pair) ==
    /\ ~isPoseAndIntrinsicDefined(inFile, pair[1])
    /\ isPoseAndIntrinsicDefined(refFile, pair[2])
    /\ ~RigPair(pair)

SharesSlot(t, u) ==
    \/ inFile.views[t].poseId = inFile.views[u].poseId
    \/ inFile.views[t].intrinsicId = inFile.views[u].intrinsicId

OrdersOf(s) ==
    {[k \in 1..Len(s) |-> s[f[k]]] :
        f \in {g \in [1..Len(s) -> 1..Len(s)] : \A a, b \in 1..Len(s) : g[a] = g[b] => a = b}}

\* C1: a target view that was pose-and-intrinsic-complete when loaded has, in
\* the saved scene, the same pose at its pose ID and the same intrinsic at its
\* intrinsic ID, also when other target views share those IDs.
C1_CompleteViewsKept ==
    outcome = "saved" =>
        \A v \in DOMAIN inFile.views :
            isPoseAndIntrinsicDefined(inFile, v) => SlotsKept(Saved, v)

\* C2: for every correspondence (t, r) whose reference view r is incomplete,
\* the pose at t's pose ID and the intrinsic at t's intrinsic ID stay as they
\* were loaded, through the whole run.
C2_IncompleteReferenceKeepsTarget ==
    InTransfer =>
        \A pair \in PairSet :
            ~isPoseAndIntrinsicDefined(refFile, pair[2]) => SlotsKept(sfmDataIn, pair[1])

\* C2 (amended): as C2, for the correspondences (t, r) such that no other
\* correspondence that is eligible has a target view using t's pose ID or t's
\* intrinsic ID.
C2_IncompleteReferenceKeepsOwnSlots ==
    InTransfer =>
        \A pair \in PairSet :
            (/\ ~isPoseAndIntrinsicDefined(refFile, pair[2])
             /\ \A other \in PairSet :
                   (other # pair /\ EligibleBefore(other)) => ~SharesSlot(pair[1], other[1]))
            => SlotsKept(sfmDataIn, pair[1])

\* C2 (witness): A saved run in which the pair of an incomplete reference view was left alone
\* while another pair was transferred.
C2_Witness ==
    /\ outcome = "saved"
    /\ Saved # inFile
    /\ \E pair \in PairSet :
          /\ ~isPoseAndIntrinsicDefined(refFile, pair[2])
          /\ ~isPoseAndIntrinsicDefined(inFile, pair[1])
          /\ \A other \in PairSet :
                (other # pair /\ EligibleBefore(other)) => ~SharesSlot(pair[1], other[1])

\* C3, the loop iteration of a pair with a rig member.
C3_RigPairStep ==
    (/\ pc = "transfer"
     /\ ~(~transferPoses /\ ~transferIntrinsics)
     /\ RigPair(commonViewIds[idx]))
    => /\ sfmDataIn' = sfmDataIn
       /\ exitCode' = exitCode
       /\ outcome' = outcome
       /\ idx' = idx + 1
       /\ pc' = IF idx = Len(commonViewIds) THEN "save" ELSE "transfer"

\* C3, the save that succeeds.
C3_SaveStep ==
    (pc = "save" /\ outFile' # outFile)
    => /\ outFile' = {sfmDataIn}
       /\ exitCode' = EXIT_SUCCESS
       /\ pc' = "done"

\* C3: the loop iteration of a correspondence whose target or reference view is
\* a rig member writes nothing, whatever the flags, and goes on to the next pair
\* or, after the last pair, to the save; a save that succeeds writes the scene
\* and ends the run with exit code 0.
C3_RigPairsSkipped == [][C3_RigPairStep /\ C3_SaveStep]_vars

\* C3 (witness): A saved run whose incomplete target view, matched to a complete rig-member
\* reference view, is still incomplete in the saved scene.
C3_Witness ==
    /\ outcome = "saved"
    /\ exitCode = EXIT_SUCCESS
    /\ ~(~transferPoses /\ ~transferIntrinsics)
    /\ \E pair \in PairSet :
          /\ isPartOfRig(refFile.views[pair[2]])
          /\ ~isPoseAndIntrinsicDefined(inFile, pair[1])
          /\ isPoseAndIntrinsicDefined(refFile, pair[2])
          /\ ~isPoseAndIntrinsicDefined(Saved, pair[1])

\* C4: with transferPoses and not transferIntrinsics, the target intrinsic
\* table stays as loaded, and a pose entry differs from the loaded one only at
\* the pose ID of the target view of an eligible correspondence.
C4_OnlyPosesChange ==
    (transferPoses /\ ~transferIntrinsics /\ InTransfer) =>
        /\ sfmDataIn.intrinsics = inFile.intrinsics
        /\ sfmDataIn.views = inFile.views
        /\ DOMAIN inFile.poses \subseteq DOMAIN sfmDataIn.poses
        /\ \A id \in DOMAIN sfmDataIn.poses :
              ~SameEntry(inFile.poses, sfmDataIn.poses, id) =>
                  \E pair \in PairSet :
                      EligibleBefore(pair) /\ inFile.views[pair[1]].poseId = id
        /\ outFile # {} => Saved = sfmDataIn

\* C4 (witness): A saved pose-only run that changed the pose table.
C4_Witness ==
    /\ transferPoses /\ ~transferIntrinsics
    /\ outcome = "saved"
    /\ Saved.poses # inFile.poses
    /\ Saved.intrinsics = inFile.intrinsics
    /\ Saved.intrinsics # EmptyMap

\* C5: after a run with both flags true, every eligible correspondence (t, r)
\* has t's pose ID mapped to r's reference pose, the intrinsic at t's intrinsic
\* ID equal to r's reference intrinsic, and t complete.
C5_EligibleViewsCompleted ==
    (transferPoses /\ transferIntrinsics /\ InTransfer /\ pc = "done") =>
        \A pair \in PairSet :
            EligibleBefore(pair) =>
                LET viewA == inFile.views[pair[1]]
                    viewB == refFile.views[pair[2]]
                IN  /\ viewA.poseId \in DOMAIN sfmDataIn.poses
                    /\ viewA.intrinsicId \in DOMAIN sfmDataIn.intrinsics
                    /\ sfmDataIn.poses[viewA.poseId] = refFile.poses[viewB.poseId]
                    /\ sfmDataIn.intrinsics[viewA.intrinsicId]
                         = refFile.intrinsics[viewB.intrinsicId]

\* C6: running the loop again on the scene the loop produced, with the same
\* reference, correspondences, order and flags, produces that same scene.
C6_Idempotent ==
    LoopEnded =>
        TransferLoop(sfmDataIn, sfmDataInRef, commonViewIds,
                     transferPoses, transferIntrinsics)
          = [scene |-> sfmDataIn, crashed |-> FALSE]

\* C6 (witness): The loop changed the scene and left a pair eligible, so that the second run
\* writes again.
C6_Witness ==
    /\ LoopEnded
    /\ InTransfer
    /\ sfmDataIn # inFile
    /\ \E pair \in PairSet :
          /\ Eligible(sfmDataIn, sfmDataInRef, pair)
          /\ ~RigPair(pair)

\* The run's result is the result of the loop over the pairs in the order p:
\* both abort, or both end with the same scene.
SameResultInOrder(p) ==
    LET res == TransferLoop(inFile, refFile, p, transferPoses, transferIntrinsics) IN
    /\ res.crashed <=> outcome = "aborted"
    /\ ~res.crashed => res.scene = sfmDataIn

NoSharedSlots ==
    \A pair, other \in PairSet : pair[1] # other[1] => ~SharesSlot(pair[1], other[1])

\* C7: every order of the correspondences gives the result of the run.
C7_OrderIndependent ==
    (InTransfer /\ (LoopEnded \/ outcome = "aborted")) =>
        \A p \in OrdersOf(commonViewIds) : SameResultInOrder(p)

\* C7 (amended): every order of the correspondences gives the result of the
\* run, when no two target views of the correspondences use the same pose ID or
\* the same intrinsic ID.
C7_OrderIndependentOwnSlots ==
    (InTransfer /\ (LoopEnded \/ outcome = "aborted") /\ NoSharedSlots) =>
        \A p \in OrdersOf(commonViewIds) : SameResultInOrder(p)

\* C7 (witness): A finished loop over two eligible pairs with slots of their own, one of them
\* matched to a reference view of another ID.
C7_Witness ==
    /\ LoopEnded
    /\ NoSharedSlots
    /\ Len(commonViewIds) >= 2
    /\ \A pair \in PairSet : EligibleBefore(pair)
    /\ \E pair \in PairSet : pair[1] # pair[2]

\* C8: the run ends with a non-zero exit code exactly when a load failed, no
\* correspondence was found or the save failed, and with 0 otherwise; after a
\* failed load or an empty match nothing is written and nothing transferred.
C8_ExitCodes ==
    pc = "done" =>
        /\ exitCode # 0 <=>
             outcome \in {"loadInFailed", "loadRefFailed", "noCommonViews", "saveFailed"}
        /\ outcome \in {"loadInFailed", "loadRefFailed", "noCommonViews"} =>
             (outFile = {} /\ sfmDataIn \in {EmptyScene, inFile})
        /\ outFile # {} =>
             (sfmDataInRef = refFile /\ commonViewIds # << >> /\ Saved = sfmDataIn)

\* C9: from_viewid yields exactly the pairs (id, id) of the view IDs present in
\* both scenes, each once.
C9_ViewIdMatching ==
    (matchingMethod = "FROM_VIEWID" /\ pc \notin {"loadIn", "loadRef", "match"}) =>
        /\ PairSet = {<<id, id>> : id \in (DOMAIN sfmDataIn.views) \cap (DOMAIN sfmDataInRef.views)}
        /\ \A a, b \in 1..Len(commonViewIds) :
              commonViewIds[a][1] = commonViewIds[b][1] => a = b

\* C9 (witness): A from_viewid match of scenes with different view sets that found a pair
\* with an ID other than its position.
C9_Witness ==
    /\ matchingMethod = "FROM_VIEWID"
    /\ pc = "transfer"
    /\ DOMAIN sfmDataIn.views # DOMAIN sfmDataInRef.views
    /\ \E k \in 1..Len(commonViewIds) : commonViewIds[k] = <<k + 1, k + 1>>

\* C10: with both flags false and a non-empty match the scene stays as loaded,
\* the save is attempted and a successful save writes the loaded scene with exit
\* code 0; an empty match ends the run with a failure and nothing written,
\* whatever the flags.
C10_NoOpStillSaves ==
    /\ (~transferPoses /\ ~transferIntrinsics /\ InTransfer) =>
          /\ sfmDataIn = inFile
          /\ pc = "done" =>
               \/ outcome = "saved" /\ exitCode = EXIT_SUCCESS /\ outFile = {inFile}
               \/ outcome = "saveFailed" /\ exitCode # EXIT_SUCCESS /\ outFile = {}
    /\ pc \in {"transfer", "save"} => commonViewIds # << >>
    /\ (pc = "done" /\ commonViewIds = << >> /\ outcome \notin {"loadInFailed", "loadRefFailed"}) =>
          (outcome = "noCommonViews" /\ exitCode = EXIT_FAILURE /\ outFile = {})

\* C10 (witness): A no-op run that saved the loaded scene.
C10_Witness ==
    /\ ~transferPoses /\ ~transferIntrinsics
    /\ outcome = "saved"
    /\ exitCode = EXIT_SUCCESS
    /\ commonViewIds # << >>
    /\ outFile = {inFile}
    /\ \E pair \in PairSet : EligibleBefore(pair)

====
